---- MODULE Spec2Model ----
(***************************************************************************)
(* A model of the retrieval-and-scoring core of smarthr-ai:                *)
(*   - PolicyChatbot (modules/policy_chatbot.py): chunk_text,              *)
(*     load_policies, build_vector_store, retrieve_relevant_chunks,        *)
(*     generate_response;                                                  *)
(*   - chunk_text of modules/utils.py;                                     *)
(*   - RecruitmentEngine.screen_candidates (modules/recruitment.py) with   *)
(*     ResumeParser.extract_skills_from_jd (modules/resume_parser.py);     *)
(*   - the Policy Assistant page of app.py: the "Process Documents" and    *)
(*     "Ask" handlers over st.session_state.                               *)
(* Texts are sequences of one-character strings, so that str.split,        *)
(* ' '.join and str.strip are computed, not assumed.  Scores are integers  *)
(* in hundredths of a percent (round(x, 2) keeps two decimals).            *)
(***************************************************************************)
EXTENDS Integers, Sequences, FiniteSets, TLC

VARIABLES
    \* ---- chunk_text called on its own (SpecChunk) ----
    cText,       \* the text argument
    cSize,       \* chunk_size
    cOverlap,    \* overlap
    cResult,     \* the list returned
    cpc          \* "ready", or which chunk_text returned: "policy" / "utils"

chunkVars == <<cText, cSize, cOverlap, cResult, cpc>>

VARIABLES
    \* ---- one PolicyChatbot object and its policy folder (Spec) ----
    folder,         \* data_dir: for each file, whether it is present and
                    \* the text extract_text_from_pdf returns for it
    documents,      \* self.documents: [source, content, chunks]
    chunks,         \* self.chunks
    chunk_sources,  \* self.chunk_sources: [source, chunk_id]
    index,          \* self.index: None, or the vectors added to the FAISS index
    lastOp,         \* the method that ran last
    lastArgs,       \* its arguments
    lastRet,        \* what it returned (NoValue when it raised)
    lastRaised,     \* the exception it let escape, "none" when it returned
    embedCalls,     \* calls of self.model.encode made by the last method
    llmCalls,       \* calls of self.client.chat.completions.create made by it
    llmRaised,      \* such a call raised during the last method
    rebuilt         \* the last successful build_vector_store replaced an
                    \* index that had been built from the same chunks

chatVars == <<folder, documents, chunks, chunk_sources, index,
              lastOp, lastArgs, lastRet, lastRaised, embedCalls, llmCalls,
              llmRaised, rebuilt>>

VARIABLES
    \* ---- one call of RecruitmentEngine.screen_candidates (SpecScreen) ----
    spc,             \* "ready", "loop" (in the for loop), "done" (returned),
                     \* "raised" (an exception left screen_candidates)
    jdOutput,        \* what the language model answered for the job description
    threshold,       \* the threshold argument, in hundredths
    nResumes,        \* len(resume_paths)
    required_skills, \* required_skills
    warned,          \* the "couldn't find any skills" warning was logged
    nextResume,      \* the loop's i: the resume processed next
    results,         \* results
    skipped          \* the resumes the loop gave up on ("continue")

screenVars == <<spc, jdOutput, threshold, nResumes, required_skills, warned,
                nextResume, results, skipped>>

VARIABLES
    \* ---- the scoring arithmetic of screen_candidates on its own (SpecScore) ----
    scoreIn,     \* for two candidates: the cosine similarities and the numbers
                 \* of matched skills, and the number of required skills
    scoreOut     \* their similarity_score, skill_match_rate and final_score

scoreVars == <<scoreIn, scoreOut>>

VARIABLES
    \* ---- the Policy Assistant page of app.py (SpecApp) ----
    policy_chatbot,   \* st.session_state.policy_chatbot: "None", or
                      \* "PolicyChatbot" when it is the object held in the
                      \* variables documents, chunks, chunk_sources and index
    policies_loaded,  \* st.session_state.policies_loaded
    chat_history,     \* st.session_state.chat_history: [q, a, s]
    shown             \* what the last handler displayed: "none", "success",
                      \* "warning" or "error"

appVars == <<policy_chatbot, policies_loaded, chat_history, shown>>

vars == <<chunkVars, chatVars, screenVars, scoreVars, appVars>>

----------------------------------------------------------------------------
(* Bounds of the model *)

\* longest text, in characters, handed to chunk_text on its own
MaxTextLen == 7

\* largest chunk_size tried
MaxChunkSize == 4

\* load_policies is not called again once self.documents holds this many
MaxDocs == 3

\* largest top_k passed to retrieve_relevant_chunks directly
MaxTopK == 3

\* longest resume_paths handed to screen_candidates
MaxBatch == 2

----------------------------------------------------------------------------
(* Python helpers *)

Min(a, b) == IF a <= b THEN a ELSE b

Max(a, b) == IF a >= b THEN a ELSE b

\* the characters of the modelled texts; " " stands for any whitespace
Letters == {"a", "b"}

Chars == Letters \cup {" "}

IsSpace(c) == c = " "

\* seq[lo:hi] of Python for 0 <= lo, 0 <= hi (indices are 0-based, hi exclusive)
Slice(seq, lo, hi) ==
    LET l == Min(lo, Len(seq))
        h == Min(hi, Len(seq))
    IN  IF h <= l THEN <<>> ELSE SubSeq(seq, l + 1, h)

\* str.strip(): leading and trailing whitespace removed
RECURSIVE LStrip(_)
LStrip(t) ==
    IF t = <<>> THEN <<>>
    ELSE IF IsSpace(Head(t)) THEN LStrip(Tail(t)) ELSE t

RECURSIVE RStrip(_)
RStrip(t) ==
    IF t = <<>> THEN <<>>
    ELSE IF IsSpace(t[Len(t)]) THEN RStrip(SubSeq(t, 1, Len(t) - 1)) ELSE t

Strip(t) == RStrip(LStrip(t))

\* str.split(): the maximal runs of non-whitespace characters, in order
RECURSIVE SplitFrom(_, _, _)
SplitFrom(t, cur, acc) ==
    IF t = <<>>
    THEN IF cur = <<>> THEN acc ELSE Append(acc, cur)
    ELSE IF IsSpace(Head(t))
         THEN SplitFrom(Tail(t), <<>>, IF cur = <<>> THEN acc ELSE Append(acc, cur))
         ELSE SplitFrom(Tail(t), Append(cur, Head(t)), acc)

Split(t) == SplitFrom(t, <<>>, <<>>)

\* ' '.join(words)
RECURSIVE Join(_)
Join(ws) ==
    IF ws = <<>> THEN <<>>
    ELSE IF Len(ws) = 1 THEN ws[1]
    ELSE ws[1] \o <<" ">> \o Join(Tail(ws))

\* range(0, n, step) for step >= 1, as a sequence
RECURSIVE RangeFrom(_, _, _)
RangeFrom(i, n, step) ==
    IF i >= n THEN <<>> ELSE <<i>> \o RangeFrom(i + step, n, step)

PyRange(n, step) == RangeFrom(0, n, step)

----------------------------------------------------------------------------
(* chunk_text *)

\* the windows of the loop: for i in range(0, len(words), chunk_size - overlap),
\* words[i:i + chunk_size], each as the pair <<first word index, end index>>
Windows(n, chunk_size, overlap) ==
    LET starts == PyRange(n, chunk_size - overlap)
    IN  [k \in 1..Len(starts) |->
            <<starts[k], Min(starts[k] + chunk_size, n)>>]

\* the chunks the loop appends: ' '.join of each window, kept if chunk.strip()
RECURSIVE KeepNonEmpty(_)
KeepNonEmpty(cs) ==
    IF cs = <<>> THEN <<>>
    ELSE IF Strip(Head(cs)) # <<>>
         THEN <<Head(cs)>> \o KeepNonEmpty(Tail(cs))
         ELSE KeepNonEmpty(Tail(cs))

LoopChunks(text, chunk_size, overlap) ==
    LET words == Split(text)
        w     == Windows(Len(words), chunk_size, overlap)
    IN  KeepNonEmpty([k \in 1..Len(w) |-> Join(Slice(words, w[k][1], w[k][1] + chunk_size))])

\* PolicyChatbot.chunk_text: return chunks if chunks else [text]
chunk_text(text, chunk_size, overlap) ==
    LET made == LoopChunks(text, chunk_size, overlap)
    IN  IF made # <<>> THEN made ELSE <<text>>

\* utils.chunk_text: return chunks
utils_chunk_text(text, chunk_size, overlap) ==
    LoopChunks(text, chunk_size, overlap)

----------------------------------------------------------------------------
(* chunk_text called on its own *)

RECURSIVE TextsOfLen(_)
TextsOfLen(n) ==
    IF n = 0 THEN {<<>>}
    ELSE {Append(t, c) : t \in TextsOfLen(n - 1), c \in Chars}

\* the five-word text "a b c d e"
FiveWords == <<"a", " ", "b", " ", "c", " ", "d", " ", "e">>

ChunkTexts == UNION {TextsOfLen(n) : n \in 0..MaxTextLen} \cup {FiveWords}

ChunkInit ==
    /\ cText \in ChunkTexts
    /\ cSize \in 1..MaxChunkSize
    /\ cOverlap \in 0..(cSize - 1)
    /\ cResult = <<>>
    /\ cpc = "ready"

ChunkIdle ==
    /\ cText = <<>>
    /\ cSize = 1
    /\ cOverlap = 0
    /\ cResult = <<>>
    /\ cpc = "idle"

\* a call of PolicyChatbot.chunk_text(cText, cSize, cOverlap)
PolicyChunkText ==
    /\ cpc = "ready"
    /\ cResult' = chunk_text(cText, cSize, cOverlap)
    /\ cpc' = "policy"
    /\ UNCHANGED <<cText, cSize, cOverlap>>
    /\ UNCHANGED <<chatVars, screenVars, scoreVars, appVars>>

\* a call of utils.chunk_text(cText, cSize, cOverlap)
UtilsChunkText ==
    /\ cpc = "ready"
    /\ cResult' = utils_chunk_text(cText, cSize, cOverlap)
    /\ cpc' = "utils"
    /\ UNCHANGED <<cText, cSize, cOverlap>>
    /\ UNCHANGED <<chatVars, screenVars, scoreVars, appVars>>

NextChunk == PolicyChunkText \/ UtilsChunkText

----------------------------------------------------------------------------
(* The external capabilities of PolicyChatbot *)

\* a value that is no list, record or number: None, or nothing returned
NoValue == [none |-> TRUE]

\* the default chunk_size and overlap of chunk_text, used by build_vector_store
DefaultChunkSize == 500

DefaultOverlap == 50

\* generate_response retrieves with top_k=5
ResponseTopK == 5

RECURSIVE CountOf(_, _)
CountOf(t, c) ==
    IF t = <<>> THEN 0
    ELSE (IF Head(t) = c THEN 1 ELSE 0) + CountOf(Tail(t), c)

\* self.model.encode(text): a deterministic vector of fixed dimension; here the
\* numbers of "a" and of "b" in the text
Embed(text) == <<CountOf(text, "a"), CountOf(text, "b")>>

\* the metric of faiss.IndexFlatL2: squared Euclidean distance
L2Sq(u, v) ==
    (u[1] - v[1]) * (u[1] - v[1]) + (u[2] - v[2]) * (u[2] - v[2])

\* IndexFlatL2.search fills the places it has no vector for with the label -1
\* and the largest float as distance; any number above every real distance
FaissNoDistance == 1000000

FaissNoLabel == -1

\* the (0-based) labels of xb in the order IndexFlatL2.search reports them:
\* by increasing distance to q, and by label among equal distances
RECURSIVE NearestFirst(_, _, _)
NearestFirst(xb, q, left) ==
    IF left = {} THEN <<>>
    ELSE LET best == CHOOSE i \in left : \A j \in left :
                        \/ L2Sq(xb[i + 1], q) < L2Sq(xb[j + 1], q)
                        \/ (L2Sq(xb[i + 1], q) = L2Sq(xb[j + 1], q) /\ i <= j)
         IN  <<best>> \o NearestFirst(xb, q, left \ {best})

\* the k <<distance, label>> pairs reported for the labels in `order`
SearchResult(xb, q, k, order) ==
    [r \in 1..k |->
        IF r <= Len(order)
        THEN <<L2Sq(xb[order[r] + 1], q), order[r]>>
        ELSE <<FaissNoDistance, FaissNoLabel>>]

\* IndexFlatL2.search(q, k): exactly k <<distance, label>> pairs
FaissSearch(xb, q, k) ==
    SearchResult(xb, q, k, NearestFirst(xb, q, 0..(Len(xb) - 1)))

\* whether list[idx] of Python finds an entry
PyInRange(seq, idx) == -Len(seq) <= idx /\ idx < Len(seq)

\* list[idx] of Python: a negative idx counts from the end
PyGet(seq, idx) == IF idx < 0 THEN seq[Len(seq) + idx + 1] ELSE seq[idx + 1]

----------------------------------------------------------------------------
(* PolicyChatbot *)

\* the names os.listdir reports, in its order
PolicyFiles == <<"leave.pdf", "conduct.pdf">>

\* what extract_text_from_pdf can return: "" when nothing could be read,
\* otherwise the stripped text of the pages
ExtractedTexts == {<<>>, <<"a">>, <<"b">>, <<"a", " ", "b">>}

AbsentFile == [present |-> FALSE, text |-> <<>>]

FolderEntries == {AbsentFile} \cup {[present |-> TRUE, text |-> t] : t \in ExtractedTexts}

IndexNone == [built |-> FALSE, xb |-> <<>>]

ChatInit ==
    /\ folder \in [1..Len(PolicyFiles) -> FolderEntries]
    /\ documents = <<>>
    /\ chunks = <<>>
    /\ chunk_sources = <<>>
    /\ index = IndexNone
    /\ lastOp = "init"
    /\ lastArgs = NoValue
    /\ lastRet = NoValue
    /\ lastRaised = "none"
    /\ embedCalls = 0
    /\ llmCalls = 0
    /\ llmRaised = FALSE
    /\ rebuilt = FALSE

ChatIdle ==
    /\ folder = [i \in 1..Len(PolicyFiles) |-> AbsentFile]
    /\ documents = <<>>
    /\ chunks = <<>>
    /\ chunk_sources = <<>>
    /\ index = IndexNone
    /\ lastOp = "idle"
    /\ lastArgs = NoValue
    /\ lastRet = NoValue
    /\ lastRaised = "none"
    /\ embedCalls = 0
    /\ llmCalls = 0
    /\ llmRaised = FALSE
    /\ rebuilt = FALSE

\* policy_files: the positions of the .pdf files present in data_dir
RECURSIVE PresentFrom(_)
PresentFrom(i) ==
    IF i > Len(PolicyFiles) THEN <<>>
    ELSE (IF folder[i].present THEN <<i>> ELSE <<>>) \o PresentFrom(i + 1)

policy_files == PresentFrom(1)

\* the loop without its "if text.strip()": every file becomes a document
RECURSIVE LoadLoopNoSkip(_, _, _)
LoadLoopNoSkip(docs, files, from) ==
    IF from > Len(files) THEN docs
    ELSE LoadLoopNoSkip(Append(docs, [content |-> folder[files[from]].text,
                                      source  |-> PolicyFiles[files[from]],
                                      chunks  |-> <<>>]),
                        files, from + 1)

\* the loop of load_policies over files[from..]: a document is appended for
\* each file whose extracted text is not blank
RECURSIVE LoadLoop(_, _, _)
LoadLoop(docs, files, from) ==
    IF from > Len(files) THEN docs
    ELSE LET text == folder[files[from]].text
         IN  LoadLoop(IF Strip(text) # <<>>
                      THEN Append(docs, [content |-> text,
                                         source  |-> PolicyFiles[files[from]],
                                         chunks  |-> <<>>])
                      ELSE docs,
                      files, from + 1)

\* load_policies()
LoadPolicies ==
    /\ Len(documents) < MaxDocs
    /\ IF policy_files = <<>>
       THEN /\ documents' = documents
            /\ lastRet' = FALSE
       ELSE /\ documents' = LoadLoop(documents, policy_files, 1)
            /\ lastRet' = (Len(documents') > 0)
    /\ lastOp' = "load_policies"
    /\ lastArgs' = NoValue
    /\ lastRaised' = "none"
    /\ embedCalls' = 0
    /\ llmCalls' = 0
    /\ llmRaised' = FALSE
    /\ UNCHANGED <<folder, chunks, chunk_sources, index, rebuilt>>
    /\ UNCHANGED <<chunkVars, screenVars, scoreVars, appVars>>

\* doc['chunks'] = self.chunk_text(doc['content']) for every document
Chunked(docs) ==
    [d \in 1..Len(docs) |->
        [docs[d] EXCEPT !.chunks =
            chunk_text(docs[d].content, DefaultChunkSize, DefaultOverlap)]]

\* all_chunks and chunk_metadata of build_vector_store, as one list of
\* [chunk, source, chunk_id]
RECURSIVE AllChunks(_)
AllChunks(docs) ==
    IF docs = <<>> THEN <<>>
    ELSE LET doc == Head(docs)
         IN  [i \in 1..Len(doc.chunks) |->
                 [chunk |-> doc.chunks[i], source |-> doc.source, chunk_id |-> i - 1]]
             \o AllChunks(Tail(docs))

\* the encode call left out when the texts are those already indexed
EncodeCallsCached(texts) == IF index.built /\ texts = chunks THEN 0 ELSE 1

\* the calls of self.model.encode that build_vector_store makes for the
\* texts it embeds: one call for the whole batch, nothing is looked up first
EncodeCalls(texts) == 1

\* embeddings = self.model.encode(all_chunks)
Embeddings(all) == [i \in 1..Len(all) |-> Embed(all[i].chunk)]

\* the vectors added to the index the object already holds, no new index made
IndexAppending(embeddings) == [built |-> TRUE, xb |-> index.xb \o embeddings]

\* self.index = faiss.IndexFlatL2(dimension); self.index.add(embeddings)
IndexFlatL2With(embeddings) == [built |-> TRUE, xb |-> embeddings]

\* self.chunks left as it was
ChunksKept(all) == chunks

\* self.chunks = all_chunks
ChunksOf(all) == [i \in 1..Len(all) |-> all[i].chunk]

\* self.chunk_sources = chunk_metadata
SourcesOf(all) ==
    [i \in 1..Len(all) |-> [source |-> all[i].source, chunk_id |-> all[i].chunk_id]]

\* build_vector_store with self.chunks and self.chunk_sources stored before
\* the chunks are embedded
BuildVectorStoreChunksFirst(encodeOK) ==
    \E docs \in {Chunked(documents)} : \E all \in {AllChunks(docs)} :
        /\ documents' = docs
        /\ lastOp' = "build_vector_store"
        /\ lastArgs' = NoValue
        /\ llmCalls' = 0
        /\ llmRaised' = FALSE
        /\ IF all = <<>>
           THEN /\ lastRet' = FALSE
                /\ lastRaised' = "none"
                /\ embedCalls' = 0
                /\ UNCHANGED <<chunks, chunk_sources, index, rebuilt>>
           ELSE IF ~encodeOK
           THEN /\ chunks' = ChunksOf(all)
                /\ chunk_sources' = SourcesOf(all)
                /\ lastRet' = NoValue
                /\ lastRaised' = "ProviderError"
                /\ embedCalls' = 1
                /\ UNCHANGED <<index, rebuilt>>
           ELSE /\ index' = IndexFlatL2With(Embeddings(all))
                /\ chunks' = ChunksOf(all)
                /\ chunk_sources' = SourcesOf(all)
                /\ rebuilt' = (index.built /\ chunks' = chunks)
                /\ lastRet' = TRUE
                /\ lastRaised' = "none"
                /\ embedCalls' = 1
        /\ UNCHANGED folder
        /\ UNCHANGED <<chunkVars, screenVars, scoreVars, appVars>>

\* build_vector_store(); encodeOK: self.model.encode returns (else it raises)
BuildVectorStore(encodeOK) ==
    \E docs \in {Chunked(documents)} : \E all \in {AllChunks(docs)} :
        /\ documents' = docs
        /\ lastOp' = "build_vector_store"
        /\ lastArgs' = NoValue
        /\ llmCalls' = 0
        /\ llmRaised' = FALSE
        /\ IF all = <<>>
           THEN /\ lastRet' = FALSE
                /\ lastRaised' = "none"
                /\ embedCalls' = 0
                /\ UNCHANGED <<chunks, chunk_sources, index, rebuilt>>
           ELSE IF ~encodeOK
           THEN /\ lastRet' = NoValue
                /\ lastRaised' = "ProviderError"
                /\ embedCalls' = EncodeCalls(ChunksOf(all))
                /\ UNCHANGED <<chunks, chunk_sources, index, rebuilt>>
           ELSE /\ index' = IndexFlatL2With(Embeddings(all))
                /\ chunks' = ChunksOf(all)
                /\ chunk_sources' = SourcesOf(all)
                /\ rebuilt' = (index.built /\ chunks' = chunks)
                /\ lastRet' = TRUE
                /\ lastRaised' = "none"
                /\ embedCalls' = EncodeCalls(ChunksOf(all))
        /\ UNCHANGED folder
        /\ UNCHANGED <<chunkVars, screenVars, scoreVars, appVars>>

\* the questions asked
Queries == {<<"a">>, <<"b", " ", "b">>}

\* the fixed answer of generate_response when nothing was retrieved
FallbackAnswer == "I don't have any policy documents loaded yet. Upload some PDFs first!"

\* the fields of the PolicyChatbot object that retrieval reads
Self == [index |-> index, chunks |-> chunks, chunk_sources |-> chunk_sources]

\* the loop of retrieve_relevant_chunks over zip(distances[0], indices[0])
GatherResults(self, found) ==
    [i \in 1..Len(found) |->
        [content  |-> PyGet(self.chunks, found[i][2]),
         source   |-> PyGet(self.chunk_sources, found[i][2]).source,
         distance |-> found[i][1],
         rank     |-> i]]

\* retrieve_relevant_chunks without its "if self.index is None" guard: the
\* query is encoded and None.search raises
RetrieveOutcomeUnguarded(query, top_k, encodeOK) ==
    IF ~encodeOK
    THEN [ret |-> NoValue, raised |-> "ProviderError", embed |-> 1]
    ELSE IF ~index.built
    THEN [ret |-> NoValue, raised |-> "AttributeError", embed |-> 1]
    ELSE [ret |-> GatherResults(Self, FaissSearch(index.xb, Embed(query), top_k)),
          raised |-> "none",
          embed |-> 1]

\* the loop over what the search found, as [ret, raised, embed]: self.chunks[idx]
\* raises IndexError for an idx outside the list
GatherOutcome(self, found) ==
    IF \E i \in 1..Len(found) : ~PyInRange(self.chunks, found[i][2])
    THEN [ret |-> NoValue, raised |-> "IndexError", embed |-> 1]
    ELSE [ret |-> GatherResults(self, found), raised |-> "none", embed |-> 1]

\* retrieve_relevant_chunks(query, top_k) on the object self, as [ret, raised,
\* embed]: the list returned, the exception raised, the encode calls made.
\* encodeOK: self.model.encode returns (else it raises)
RetrieveFrom(self, query, top_k, encodeOK) ==
    IF ~self.index.built
    THEN [ret |-> <<>>, raised |-> "none", embed |-> 0]
    ELSE IF ~encodeOK
    THEN [ret |-> NoValue, raised |-> "ProviderError", embed |-> 1]
    ELSE GatherOutcome(self, FaissSearch(self.index.xb, Embed(query), top_k))

RetrieveOutcome(query, top_k, encodeOK) == RetrieveFrom(Self, query, top_k, encodeOK)

\* retrieve_relevant_chunks that also adds the query's vector to the index
RetrieveRelevantChunksAddingQuery(query, top_k, encodeOK) ==
    \E out \in {RetrieveOutcome(query, top_k, encodeOK)} :
        /\ lastOp' = "retrieve_relevant_chunks"
        /\ lastArgs' = [query |-> query, top_k |-> top_k]
        /\ lastRet' = out.ret
        /\ lastRaised' = out.raised
        /\ embedCalls' = out.embed
        /\ llmCalls' = 0
        /\ llmRaised' = FALSE
        /\ index' = IF index.built /\ encodeOK
                     THEN [index EXCEPT !.xb = Append(@, Embed(query))]
                     ELSE index
        /\ UNCHANGED <<folder, documents, chunks, chunk_sources, rebuilt>>
        /\ UNCHANGED <<chunkVars, screenVars, scoreVars, appVars>>

RetrieveRelevantChunks(query, top_k, encodeOK) ==
    \E out \in {RetrieveOutcome(query, top_k, encodeOK)} :
        /\ lastOp' = "retrieve_relevant_chunks"
        /\ lastArgs' = [query |-> query, top_k |-> top_k]
        /\ lastRet' = out.ret
        /\ lastRaised' = out.raised
        /\ embedCalls' = out.embed
        /\ llmCalls' = 0
        /\ llmRaised' = FALSE
        /\ UNCHANGED <<folder, documents, chunks, chunk_sources, index, rebuilt>>
        /\ UNCHANGED <<chunkVars, screenVars, scoreVars, appVars>>

\* generate_response without its "if not retrieved_chunks" early return
RespondToNoFallback(r, llmOK) ==
    IF r.raised # "none"
    THEN [ret |-> NoValue, raised |-> r.raised, embed |-> r.embed, llm |-> 0]
    ELSE IF llmOK
    THEN [ret |-> [answer |-> "answer of the language model",
                   sources |-> {r.ret[i].source : i \in 1..Len(r.ret)}],
          raised |-> "none", embed |-> r.embed, llm |-> 1]
    ELSE [ret |-> [answer |-> "Sorry, something went wrong", sources |-> {}],
          raised |-> "none", embed |-> r.embed, llm |-> 1]

\* generate_response citing the source of the best chunk only
RespondToTopSourceOnly(r, llmOK) ==
    IF r.raised # "none"
    THEN [ret |-> NoValue, raised |-> r.raised, embed |-> r.embed, llm |-> 0]
    ELSE IF r.ret = <<>>
    THEN [ret |-> [answer |-> FallbackAnswer, sources |-> {}],
          raised |-> "none", embed |-> r.embed, llm |-> 0]
    ELSE IF llmOK
    THEN [ret |-> [answer |-> "answer of the language model",
                   sources |-> {r.ret[1].source}],
          raised |-> "none", embed |-> r.embed, llm |-> 1]
    ELSE [ret |-> [answer |-> "Sorry, something went wrong", sources |-> {}],
          raised |-> "none", embed |-> r.embed, llm |-> 1]

\* generate_response after its retrieval r returned, as [ret, raised, embed, llm]
RespondTo(r, llmOK) ==
    IF r.raised # "none"
    THEN [ret |-> NoValue, raised |-> r.raised, embed |-> r.embed, llm |-> 0]
    ELSE IF r.ret = <<>>
    THEN [ret |-> [answer |-> FallbackAnswer, sources |-> {}],
          raised |-> "none", embed |-> r.embed, llm |-> 0]
    ELSE IF llmOK
    THEN [ret |-> [answer |-> "answer of the language model",
                   sources |-> {r.ret[i].source : i \in 1..Len(r.ret)}],
          raised |-> "none", embed |-> r.embed, llm |-> 1]
    ELSE [ret |-> [answer |-> "Sorry, something went wrong", sources |-> {}],
          raised |-> "none", embed |-> r.embed, llm |-> 1]

\* generate_response(query).
\* llmOK: self.client.chat.completions.create returns (else it raises)
GenerateOutcome(query, encodeOK, llmOK) ==
    RespondTo(RetrieveOutcome(query, ResponseTopK, encodeOK), llmOK)

GenerateResponse(query, encodeOK, llmOK) ==
    \E out \in {GenerateOutcome(query, encodeOK, llmOK)} :
        /\ lastOp' = "generate_response"
        /\ lastArgs' = [query |-> query, top_k |-> ResponseTopK]
        /\ lastRet' = out.ret
        /\ lastRaised' = out.raised
        /\ embedCalls' = out.embed
        /\ llmCalls' = out.llm
        /\ llmRaised' = (out.llm = 1 /\ ~llmOK)
        /\ UNCHANGED <<folder, documents, chunks, chunk_sources, index, rebuilt>>
        /\ UNCHANGED <<chunkVars, screenVars, scoreVars, appVars>>

NextChat ==
    \/ LoadPolicies
    \/ \E encodeOK \in BOOLEAN : BuildVectorStore(encodeOK)
    \/ \E query \in Queries, top_k \in 1..MaxTopK, encodeOK \in BOOLEAN :
          RetrieveRelevantChunks(query, top_k, encodeOK)
    \/ \E query \in Queries, encodeOK \in BOOLEAN, llmOK \in BOOLEAN :
          GenerateResponse(query, encodeOK, llmOK)

----------------------------------------------------------------------------
(* Numbers: round(x, 2) on scores kept in hundredths *)

\* n / d rounded to the nearest integer, a tie going to the even one, as
\* Python's round does (d > 0)
RoundDiv(n, d) ==
    LET q == n \div d
        r == n - q * d
    IN  IF 2 * r < d THEN q
        ELSE IF 2 * r > d THEN q + 1
        ELSE IF q % 2 = 0 THEN q ELSE q + 1

----------------------------------------------------------------------------
(* ResumeParser: skill extraction *)

\* the skill strings the language model may answer with
SkillStrings == {"Python", "python", " Python ", "AWS", ""}

\* str.strip() on a skill string
StripSkill(s) ==
    CASE s = " Python " -> "Python"
      [] OTHER -> s

\* the answers of the language model to the job-description prompt: the call
\* raised, the text is no JSON, or it is a JSON array of strings
JDOutputs ==
    {[kind |-> "error", items |-> <<>>],
     [kind |-> "not json", items |-> <<>>]}
    \cup {[kind |-> "list", items |-> l] :
            l \in {<<>>, <<"">>, <<"Python">>, <<"Python", "python">>,
                   <<"Python", " Python ">>, <<"Python", "AWS">>}}

\* the skill words that occur in the text of the job description
JobDescriptionKeywords == {"Python", "AWS"}

\* extract_skills_from_jd with a keyword search of the job description in
\* place of [] when the answer is no list
extract_skills_from_jd_keywords(out) ==
    IF out.kind = "list" /\ out.items # <<>>
    THEN {StripSkill(out.items[i]) : i \in 1..Len(out.items)} \ {""}
    ELSE IF out.kind = "list" THEN {}
    ELSE JobDescriptionKeywords

\* extract_skills_from_jd: list(set(skill.strip() for skill in skills if
\* skill.strip())) for a non-empty list, [] otherwise.  The list has no
\* repeated entry and no defined order: it is kept as a set
extract_skills_from_jd(out) ==
    IF out.kind = "list" /\ out.items # <<>>
    THEN {StripSkill(out.items[i]) : i \in 1..Len(out.items)} \ {""}
    ELSE {}

\* the skill lists extract_skills_from_text returns for a resume: the array
\* the language model answered, as it is, or [] when that failed
CandidateSkillLists ==
    {<<>>, <<"Python">>, <<"python">>, <<"Python", "Python">>,
     <<"Python", "AWS">>, <<"AWS", "python">>}

\* the number of characters of raw_text that screen_candidates embeds
ResumeCharLimit == 2000

\* A resume's text is kept as its runs of equal characters, [c, n] standing
\* for n times the character c.
Run(c, n) == [c |-> c, n |-> n]

\* the raw_text of the resumes: 2000 characters, the same followed by one
\* more character, and two short texts
ResumeTexts ==
    {<<Run("a", ResumeCharLimit)>>,
     <<Run("a", ResumeCharLimit), Run("b", 1)>>,
     <<Run("b", 3)>>,
     <<Run("a", 1), Run("b", 1)>>}

\* text[:n] on a text kept as runs
RECURSIVE PyPrefixRuns(_, _)
PyPrefixRuns(runs, n) ==
    IF runs = <<>> \/ n <= 0 THEN <<>>
    ELSE IF Head(runs).n <= n
         THEN <<Head(runs)>> \o PyPrefixRuns(Tail(runs), n - Head(runs).n)
         ELSE <<Run(Head(runs).c, n)>>

\* util.cos_sim(self.model.encode(text), jd_embedding).item(), in units of
\* 0.00001: a fixed function of the text that was embedded, for the one job
\* description of the call
CosSim(text) ==
    CASE text = <<Run("a", ResumeCharLimit)>> -> 33337
      [] text = <<Run("b", 3)>> -> -12346
      [] text = <<Run("a", 1), Run("b", 1)>> -> 0
      [] OTHER -> 100000

\* what processing one resume meets: parse() returns None or a candidate
\* (parsed) with its skills and raw_text, and the embedding of the resume
\* returns or raises (encodeOK)
Candidates ==
    {[parsed |-> FALSE, encodeOK |-> TRUE, skills |-> <<>>, raw_text |-> <<>>]}
    \cup {[parsed |-> TRUE, encodeOK |-> FALSE, skills |-> <<>>,
            raw_text |-> <<Run("b", 3)>>]}
    \cup {[parsed |-> TRUE, encodeOK |-> TRUE, skills |-> sk, raw_text |-> t] :
            sk \in CandidateSkillLists, t \in ResumeTexts}

\* the thresholds passed, in hundredths
Thresholds == {0, 4000, 5000}

----------------------------------------------------------------------------
(* RecruitmentEngine.screen_candidates *)

\* similarity_score with a negative cosine similarity clamped to 0
SimilarityScoreClamped(similarity) ==
    RoundDiv(IF similarity < 0 THEN 0 ELSE similarity, 10)

\* similarity_score taken from the magnitude of the cosine similarity
SimilarityScoreMagnitude(similarity) ==
    RoundDiv(IF similarity < 0 THEN -similarity ELSE similarity, 10)

\* similarity_score = round(similarity * 100, 2), in hundredths
SimilarityScore(similarity) == RoundDiv(similarity, 10)

InList(x, list) == \E i \in 1..Len(list) : list[i] = x

\* matched_skills = [skill for skill in required_skills
\*                   if skill in candidate_data['skills']]
MatchedSkills(required, skills) == {skill \in required : InList(skill, skills)}

\* matched_count taken over the candidate's list instead of the required one
MatchedCountOverCandidate(required, skills) ==
    Cardinality({k \in 1..Len(skills) : skills[k] \in required})

\* matched_count = len(matched_skills)
MatchedCount(required, skills) == Cardinality(MatchedSkills(required, skills))

\* skill_match_rate with an empty requirement counted as fully met
SkillMatchRateVacuous(matched_count, required_count) ==
    IF required_count > 0
    THEN RoundDiv(matched_count * 10000, required_count)
    ELSE 10000

\* skill_match_rate, in hundredths
SkillMatchRate(matched_count, required_count) ==
    IF required_count > 0
    THEN RoundDiv(matched_count * 10000, required_count)
    ELSE 0

\* the weights of final_score exchanged
FinalScoreSwapped(similarity_score, skill_match_rate) ==
    RoundDiv(4 * similarity_score + 6 * skill_match_rate, 10)

\* final_score = round((similarity_score * 0.6) + (skill_match_rate * 0.4), 2)
FinalScore(similarity_score, skill_match_rate) ==
    RoundDiv(6 * similarity_score + 4 * skill_match_rate, 10)

\* shortlisted with > in place of >=
ShortlistedStrict(final_score, thr) == final_score > thr

\* shortlisted = final_score >= threshold
Shortlisted(final_score, thr) == final_score >= thr

\* the whole raw_text embedded, without the cut
ResumeTextWhole(raw_text) == raw_text

\* resume_text = candidate_data['raw_text'][:2000]
ResumeText(raw_text) == PyPrefixRuns(raw_text, ResumeCharLimit)

\* the result dict built for the candidate of resume number `path`
ResultOf(path, cand, required, thr) ==
    LET matched == MatchedCount(required, cand.skills)
        sim     == SimilarityScore(CosSim(ResumeText(cand.raw_text)))
        rate    == SkillMatchRate(matched, Cardinality(required))
        final   == FinalScore(sim, rate)
    IN  [path                  |-> path,
         skills                |-> cand.skills,
         similarity_score      |-> sim,
         skill_match_rate      |-> rate,
         matched_skills        |-> MatchedSkills(required, cand.skills),
         matched_skills_count  |-> matched,
         required_skills_count |-> Cardinality(required),
         final_score           |-> final,
         shortlisted           |-> Shortlisted(final, thr),
         raw_text              |-> cand.raw_text]

\* the sort without reverse=True: lowest first
RECURSIVE InsertAsc(_, _)
InsertAsc(sorted, r) ==
    IF sorted = <<>> THEN <<r>>
    ELSE IF Head(sorted).final_score <= r.final_score
         THEN <<Head(sorted)>> \o InsertAsc(Tail(sorted), r)
         ELSE <<r>> \o sorted

\* list.sort(key=final_score, reverse=True): stable, highest first
RECURSIVE InsertDesc(_, _)
InsertDesc(sorted, r) ==
    IF sorted = <<>> THEN <<r>>
    ELSE IF Head(sorted).final_score >= r.final_score
         THEN <<Head(sorted)>> \o InsertDesc(Tail(sorted), r)
         ELSE <<r>> \o sorted

\* the list sorted lowest first (stable) and then reversed
RECURSIVE SortAscending(_)
SortAscending(list) ==
    IF list = <<>> THEN <<>>
    ELSE InsertAsc(SortAscending(SubSeq(list, 1, Len(list) - 1)), list[Len(list)])

SortByReversal(list) ==
    [i \in 1..Len(list) |-> SortAscending(list)[Len(list) + 1 - i]]

RECURSIVE SortDesc(_)
SortDesc(list) ==
    IF list = <<>> THEN <<>>
    ELSE InsertDesc(SortDesc(SubSeq(list, 1, Len(list) - 1)), list[Len(list)])

ScreenInit ==
    /\ spc = "ready"
    /\ jdOutput = [kind |-> "error", items |-> <<>>]
    /\ threshold = 5000
    /\ nResumes = 0
    /\ required_skills = {}
    /\ warned = FALSE
    /\ nextResume = 1
    /\ results = <<>>
    /\ skipped = {}

ScreenIdle ==
    /\ spc = "idle"
    /\ jdOutput = [kind |-> "error", items |-> <<>>]
    /\ threshold = 5000
    /\ nResumes = 0
    /\ required_skills = {}
    /\ warned = FALSE
    /\ nextResume = 1
    /\ results = <<>>
    /\ skipped = {}

\* screen_candidates(resume_paths, job_description, threshold) up to the loop:
\* the required skills are extracted and the job description is embedded
\* (jdEncodeOK: that encode returns; else it raises out of screen_candidates)
StartScreening(n, out, thr, jdEncodeOK) ==
    /\ spc = "ready"
    /\ jdOutput' = out
    /\ threshold' = thr
    /\ nResumes' = n
    /\ required_skills' = extract_skills_from_jd(out)
    /\ warned' = (required_skills' = {})
    /\ nextResume' = 1
    /\ results' = <<>>
    /\ skipped' = {}
    /\ spc' = IF jdEncodeOK THEN "loop" ELSE "raised"
    /\ UNCHANGED <<chunkVars, chatVars, scoreVars, appVars>>

\* the iteration without the try/except inside the loop: an exception
\* leaves screen_candidates
ProcessResumeUncaught(cand) ==
    /\ spc = "loop"
    /\ nextResume <= nResumes
    /\ IF cand.parsed /\ cand.encodeOK
       THEN /\ results' = Append(results,
                   ResultOf(nextResume, cand, required_skills, threshold))
            /\ UNCHANGED <<skipped, spc>>
       ELSE IF ~cand.parsed
       THEN /\ skipped' = skipped \cup {nextResume}
            /\ UNCHANGED <<results, spc>>
       ELSE /\ spc' = "raised"
            /\ UNCHANGED <<results, skipped>>
    /\ nextResume' = nextResume + 1
    /\ UNCHANGED <<jdOutput, threshold, nResumes, required_skills, warned>>
    /\ UNCHANGED <<chunkVars, chatVars, scoreVars, appVars>>

\* one iteration of "for i, resume_path in enumerate(resume_paths, 1)": a
\* resume that parse() gives None for, or that raises inside the try, is
\* left out with "continue"
ProcessResume(cand) ==
    /\ spc = "loop"
    /\ nextResume <= nResumes
    /\ IF cand.parsed /\ cand.encodeOK
       THEN /\ results' = Append(results,
                   ResultOf(nextResume, cand, required_skills, threshold))
            /\ UNCHANGED skipped
       ELSE /\ skipped' = skipped \cup {nextResume}
            /\ UNCHANGED results
    /\ nextResume' = nextResume + 1
    /\ UNCHANGED <<spc, jdOutput, threshold, nResumes, required_skills, warned>>
    /\ UNCHANGED <<chunkVars, chatVars, scoreVars, appVars>>

\* after the loop: results.sort(...) and return results
FinishScreening ==
    /\ spc = "loop"
    /\ nextResume > nResumes
    /\ results' = SortDesc(results)
    /\ spc' = "done"
    /\ UNCHANGED <<jdOutput, threshold, nResumes, required_skills, warned,
                   nextResume, skipped>>
    /\ UNCHANGED <<chunkVars, chatVars, scoreVars, appVars>>

NextScreen ==
    \/ \E n \in 0..MaxBatch, out \in JDOutputs, thr \in Thresholds,
          jdEncodeOK \in BOOLEAN :
          StartScreening(n, out, thr, jdEncodeOK)
    \/ \E cand \in Candidates : ProcessResume(cand)
    \/ FinishScreening

----------------------------------------------------------------------------
(* The scoring arithmetic of screen_candidates, on two candidates at once *)

\* the most skills a job description requires
MaxRequired == 3

\* values of util.cos_sim(...).item(), in units of 0.00001
CosGrid == {-100000, -12346, -5, 0, 5, 15, 33337, 33345, 100000}

ScoreInputs ==
    {[similarity |-> <<s1, s2>>, matched |-> <<m1, m2>>, required |-> r] :
        s1 \in CosGrid, s2 \in CosGrid,
        m1 \in 0..MaxRequired, m2 \in 0..MaxRequired, r \in 0..MaxRequired}

ScoreInit ==
    /\ scoreIn \in {inp \in ScoreInputs :
                       inp.matched[1] <= inp.required /\ inp.matched[2] <= inp.required}
    /\ scoreOut = <<>>

ScoreIdle ==
    /\ scoreIn = [similarity |-> <<0, 0>>, matched |-> <<0, 0>>, required |-> 0]
    /\ scoreOut = <<>>

\* lines 150-179 of screen_candidates for one candidate
ScoresOf(similarity, matched_count, required_count) ==
    LET sim  == SimilarityScore(similarity)
        rate == SkillMatchRate(matched_count, required_count)
    IN  [similarity_score |-> sim,
         skill_match_rate |-> rate,
         final_score      |-> FinalScore(sim, rate)]

ScoreBoth ==
    /\ scoreOut = <<>>
    /\ scoreOut' = [k \in 1..2 |->
                       ScoresOf(scoreIn.similarity[k], scoreIn.matched[k],
                                scoreIn.required)]
    /\ UNCHANGED scoreIn
    /\ UNCHANGED <<chunkVars, chatVars, screenVars, appVars>>

NextScore == ScoreBoth

----------------------------------------------------------------------------
(* app.py: the Policy Assistant page *)

\* the most questions asked in one session
MaxHistory == 2

\* the files a user uploads: for each name, not uploaded, a PDF without
\* readable text, or a PDF with text
UploadedFiles ==
    [1..Len(PolicyFiles) ->
        {AbsentFile, [present |-> TRUE, text |-> <<>>],
         [present |-> TRUE, text |-> <<"a">>]}]

AppInit ==
    /\ policy_chatbot = "None"
    /\ policies_loaded = FALSE
    /\ chat_history = <<>>
    /\ shown = "none"

AppIdle ==
    /\ policy_chatbot = "idle"
    /\ policies_loaded = FALSE
    /\ chat_history = <<>>
    /\ shown = "none"

\* "Process Documents" putting the new chatbot into the session before it
\* has loaded and indexed the uploads
ProcessDocumentsStoresFirst(uploaded, encodeOK) ==
    IF \A i \in 1..Len(PolicyFiles) : ~uploaded[i].present
    THEN /\ shown' = "warning"
         /\ UNCHANGED <<policy_chatbot, policies_loaded, chat_history>>
         /\ UNCHANGED <<chunkVars, chatVars, screenVars, scoreVars>>
    ELSE /\ folder' = uploaded
         /\ policy_chatbot' = "PolicyChatbot"
         /\ policies_loaded' = TRUE
         /\ \E docs \in {(LoadLoop(<<>>, policy_files, 1))'} :
            \E all \in {AllChunks(Chunked(docs))} :
               IF docs # <<>> /\ all # <<>> /\ encodeOK
               THEN /\ documents' = Chunked(docs)
                    /\ index' = IndexFlatL2With(Embeddings(all))
                    /\ chunks' = ChunksOf(all)
                    /\ chunk_sources' = SourcesOf(all)
                    /\ shown' = "success"
               ELSE /\ documents' = Chunked(docs)
                    /\ index' = IndexNone
                    /\ chunks' = <<>>
                    /\ chunk_sources' = <<>>
                    /\ shown' = "error"
         /\ lastOp' = "Process Documents"
         /\ lastArgs' = NoValue
         /\ lastRet' = NoValue
         /\ lastRaised' = "none"
         /\ embedCalls' = 0
         /\ llmCalls' = 0
         /\ llmRaised' = FALSE
         /\ rebuilt' = FALSE
         /\ UNCHANGED chat_history
         /\ UNCHANGED <<chunkVars, screenVars, scoreVars>>

\* the "Process Documents" button with `uploaded` in the file uploader: the
\* old PDFs are removed and the uploads saved, then a new PolicyChatbot loads
\* and indexes them and is put into the session only if both succeed
ProcessDocuments(uploaded, encodeOK) ==
    IF \A i \in 1..Len(PolicyFiles) : ~uploaded[i].present
    THEN /\ shown' = "warning"
         /\ UNCHANGED <<policy_chatbot, policies_loaded, chat_history>>
         /\ UNCHANGED <<chunkVars, chatVars, screenVars, scoreVars>>
    ELSE /\ folder' = uploaded
         /\ \E docs \in {(LoadLoop(<<>>, policy_files, 1))'} :
            \E all \in {AllChunks(Chunked(docs))} :
               IF docs # <<>> /\ all # <<>> /\ encodeOK
               THEN /\ documents' = Chunked(docs)
                    /\ index' = IndexFlatL2With(Embeddings(all))
                    /\ chunks' = ChunksOf(all)
                    /\ chunk_sources' = SourcesOf(all)
                    /\ policy_chatbot' = "PolicyChatbot"
                    /\ policies_loaded' = TRUE
                    /\ shown' = "success"
               ELSE /\ shown' = "error"
                    /\ UNCHANGED <<documents, index, chunks, chunk_sources,
                                   policy_chatbot, policies_loaded>>
         /\ lastOp' = "Process Documents"
         /\ lastArgs' = NoValue
         /\ lastRet' = NoValue
         /\ lastRaised' = "none"
         /\ embedCalls' = 0
         /\ llmCalls' = 0
         /\ llmRaised' = FALSE
         /\ rebuilt' = FALSE
         /\ UNCHANGED chat_history
         /\ UNCHANGED <<chunkVars, screenVars, scoreVars>>

\* the "Ask" button with a question typed in: shown only once policies are
\* loaded; the response is put in front of chat_history, an exception is
\* displayed with st.error
Ask(query, encodeOK, llmOK) ==
    /\ policies_loaded
    /\ Len(chat_history) < MaxHistory
    /\ \E out \in {GenerateOutcome(query, encodeOK, llmOK)} :
          /\ lastOp' = "generate_response"
          /\ lastArgs' = [query |-> query, top_k |-> ResponseTopK]
          /\ lastRet' = out.ret
          /\ lastRaised' = out.raised
          /\ embedCalls' = out.embed
          /\ llmCalls' = out.llm
          /\ llmRaised' = (out.llm = 1 /\ ~llmOK)
          /\ IF out.raised = "none"
             THEN /\ chat_history' = <<[q |-> query, a |-> out.ret.answer,
                                        s |-> out.ret.sources]>> \o chat_history
                  /\ shown' = "none"
             ELSE /\ shown' = "error"
                  /\ UNCHANGED chat_history
    /\ UNCHANGED <<folder, documents, chunks, chunk_sources, index, rebuilt>>
    /\ UNCHANGED <<policy_chatbot, policies_loaded>>
    /\ UNCHANGED <<chunkVars, screenVars, scoreVars>>

NextApp ==
    \/ \E uploaded \in UploadedFiles, encodeOK \in BOOLEAN :
          ProcessDocuments(uploaded, encodeOK)
    \/ \E query \in Queries, encodeOK \in BOOLEAN, llmOK \in BOOLEAN :
          Ask(query, encodeOK, llmOK)

----------------------------------------------------------------------------
(* Specifications *)

\* one PolicyChatbot over a fixed policy folder
Init == ChatInit /\ ChunkIdle /\ ScreenIdle /\ ScoreIdle /\ AppIdle

Next == NextChat

Spec == Init /\ [][Next]_vars

\* chunk_text on its own, over all small texts and parameters
InitChunk == ChunkInit /\ ChatIdle /\ ScreenIdle /\ ScoreIdle /\ AppIdle

SpecChunk == InitChunk /\ [][NextChunk]_vars

\* one call of screen_candidates
InitScreen == ScreenInit /\ ChatIdle /\ ChunkIdle /\ ScoreIdle /\ AppIdle

SpecScreen == InitScreen /\ [][NextScreen]_vars

\* the scoring arithmetic on two candidates, over a grid of inputs
InitScore == ScoreInit /\ ChatIdle /\ ChunkIdle /\ ScreenIdle /\ AppIdle

SpecScore == InitScore /\ [][NextScore]_vars

\* the Policy Assistant page: uploads and questions in any order
InitApp == AppInit /\ ChatIdle /\ ChunkIdle /\ ScreenIdle /\ ScoreIdle

SpecApp == InitApp /\ [][NextApp]_vars

----------------------------------------------------------------------------
(* Retrieval: C1 - C3 *)

\* C1: a search of a built index over n chunks returns exactly min(top_k, n)
\* results, ordered by non-decreasing distance.
C1_CountIsMinOfTopKAndCorpus ==
    (lastOp = "retrieve_relevant_chunks" /\ index.built /\ lastRaised = "none") =>
        /\ Len(lastRet) = Min(lastArgs.top_k, Len(chunks))
        /\ \A i \in 1..(Len(lastRet) - 1) :
              lastRet[i].distance <= lastRet[i + 1].distance

\* C2 as stated: a search before any successful build fails with an
\* IndexNotReady condition and does not return an empty successful result.
C2_UnbuiltSearchFails ==
    (lastOp = "retrieve_relevant_chunks" /\ ~index.built) =>
        lastRaised = "IndexNotReady"

\* C2 as amended: a search before any successful build returns normally with
\* an empty list, raises nothing and does not call the Embedding Provider.
C2_UnbuiltSearchReturnsEmpty ==
    (lastOp = "retrieve_relevant_chunks" /\ ~index.built) =>
        /\ lastRaised = "none"
        /\ lastRet = <<>>
        /\ embedCalls = 0

C2_Witness ==
    /\ lastOp = "retrieve_relevant_chunks"
    /\ ~index.built
    /\ documents # <<>>

\* C3: with the index unbuilt (a built index is never empty), generate_response
\* returns the fixed fallback answer with no sources and calls neither the
\* Embedding Provider nor the Language Model Provider.
C3_UnbuiltIndexFallback ==
    /\ index.built => Len(index.xb) > 0
    /\ (lastOp = "generate_response" /\ ~index.built) =>
          /\ lastRaised = "none"
          /\ lastRet = [answer |-> FallbackAnswer, sources |-> {}]
          /\ embedCalls = 0
          /\ llmCalls = 0

C3_Witness ==
    /\ lastOp = "generate_response"
    /\ ~index.built
    /\ documents # <<>>
    /\ lastRet.answer = FallbackAnswer

----------------------------------------------------------------------------
(* Chunking: C4 - C6 *)

\* the words of the text handed to chunk_text
cWords == Split(cText)

\* C4: a text of at most chunk_size words comes back as exactly one chunk,
\* holding the words of the text (read up to whitespace).
C4_ShortTextIsOneChunk ==
    (cpc = "policy" /\ Len(cWords) <= cSize) =>
        /\ Len(cResult) = 1
        /\ Split(cResult[1]) = cWords

\* C5: "a b c d e" with chunk_size 3 and overlap 1 gives exactly the two
\* chunks "a b c" and "c d e".
C5_FiveWordsTwoChunks ==
    (cpc \in {"policy", "utils"} /\ cText = FiveWords /\ cSize = 3 /\ cOverlap = 1) =>
        cResult = << <<"a", " ", "b", " ", "c">>, <<"c", " ", "d", " ", "e">> >>

\* the word-index ranges <<first, end>> of the chunks returned
cRanges == Windows(Len(cWords), cSize, cOverlap)

SharedWords(r1, r2) == Max(0, Min(r1[2], r2[2]) - Max(r1[1], r2[1]))

\* C6: the chunk ranges cover every word index, and adjacent chunks share
\* exactly `overlap` words; only the final chunk may be shorter, so a pair
\* that ends in the final chunk is left out.
C6_CoverageAndExactOverlap ==
    (cpc = "policy" /\ cWords # <<>>) =>
        /\ Len(cResult) = Len(cRanges)
        /\ \A w \in 0..(Len(cWords) - 1) :
              \E k \in 1..Len(cRanges) : cRanges[k][1] <= w /\ w < cRanges[k][2]
        /\ \A k \in 1..(Len(cRanges) - 2) :
              SharedWords(cRanges[k], cRanges[k + 1]) = cOverlap

----------------------------------------------------------------------------
(* Screening: C7 - C10 *)

\* C7: in every result, shortlisted is true exactly when final_score is at
\* least the threshold of the call.
C7_ShortlistedIffAtLeastThreshold ==
    \A i \in 1..Len(results) :
        results[i].shortlisted <=> (results[i].final_score >= threshold)

C7_Witness ==
    /\ spc = "done"
    /\ \E i \in 1..Len(results) :
          results[i].final_score = threshold /\ results[i].shortlisted
    /\ \E j \in 1..Len(results) :
          results[j].final_score < threshold /\ ~results[j].shortlisted

\* C8: final_score is 0.6 * similarity_score + 0.4 * skill_match_rate rounded
\* to the nearest hundredth; skill_match_rate 100 with similarity_score 0
\* gives 40.00, shortlisted for every threshold up to 40.
C8_FinalScoreIsWeightedSum ==
    \A i \in 1..Len(results) :
        LET r == results[i]
        IN  /\ 10 * r.final_score - (6 * r.similarity_score + 4 * r.skill_match_rate)
                  \in -5..5
            /\ (r.skill_match_rate = 10000 /\ r.similarity_score = 0) =>
                  /\ r.final_score = 4000
                  /\ threshold <= 4000 => r.shortlisted

C8_Witness ==
    /\ spc = "done"
    /\ \E i \in 1..Len(results) :
          /\ results[i].skill_match_rate = 10000
          /\ results[i].similarity_score = 0
          /\ results[i].final_score = 4000
          /\ results[i].shortlisted
    /\ \E j \in 1..Len(results) :
          10 * results[j].final_score #
              6 * results[j].similarity_score + 4 * results[j].skill_match_rate

\* str.lower() on a skill string
LowerSkill(s) ==
    CASE s = "Python" -> "python"
      [] s = "AWS" -> "aws"
      [] OTHER -> s

\* C9: a required skill counts as matched when the candidate's skills hold
\* the same string up to letter case, and skill_match_rate is
\* 100 * |matched| / |required|.
C9_CaseInsensitiveSkillMatch ==
    \A i \in 1..Len(results) :
        LET r == results[i]
            matched == {s \in required_skills :
                          \E k \in 1..Len(r.skills) :
                              LowerSkill(r.skills[k]) = LowerSkill(s)}
        IN  /\ r.matched_skills_count = Cardinality(matched)
            /\ required_skills # {} =>
                  r.skill_match_rate =
                      RoundDiv(10000 * Cardinality(matched), Cardinality(required_skills))

\* C10: whatever lists the extraction returns, repeated or differently-cased
\* entries included, skill_match_rate lies between 0 and 100.
C10_SkillMatchRateInRange ==
    \A i \in 1..Len(results) :
        /\ 0 <= results[i].skill_match_rate
        /\ results[i].skill_match_rate <= 10000

C10_Witness ==
    /\ spc = "done"
    /\ jdOutput.items = <<"Python", " Python ">>
    /\ \E i \in 1..Len(results) :
          /\ results[i].skills = <<"Python", "Python">>
          /\ results[i].skill_match_rate = 10000
    /\ \E j \in 1..Len(results) :
          /\ results[j].skills = <<"AWS", "python">>
          /\ results[j].skill_match_rate = 0


----------------------------------------------------------------------------
(* Screening: C11 - C13 *)

\* C11: when no required skill was extracted, screen_candidates logs a warning
\* and goes on into the loop; every candidate scored has skill_match_rate 0
\* and a final_score of 0.6 * similarity_score (rounded to two decimals).
C11_NoRequiredSkillsScoresZeroRate ==
    (spc \in {"loop", "done"} /\ required_skills = {}) =>
        /\ warned
        /\ \A i \in 1..Len(results) :
              /\ results[i].required_skills_count = 0
              /\ results[i].skill_match_rate = 0
              /\ 10 * results[i].final_score - 6 * results[i].similarity_score
                    \in -5..5

C11_Witness ==
    /\ spc = "done"
    /\ required_skills = {}
    /\ warned
    /\ \E i \in 1..Len(results) :
          /\ results[i].skills # <<>>
          /\ results[i].similarity_score > 0
          /\ results[i].skill_match_rate = 0

\* the multiset of the entries of a list
BagOfList(list) ==
    [r \in {list[i] : i \in 1..Len(list)} |->
        Cardinality({i \in 1..Len(list) : list[i] = r})]

\* C12: the list returned is ordered by final_score, highest first, and holds
\* exactly the results computed in the loop, each as often as it was computed.
C12_SortedPermutation ==
    [][(spc = "loop" /\ spc' = "done") =>
          /\ \A i \in 1..(Len(results') - 1) :
                results'[i].final_score >= results'[i + 1].final_score
          /\ BagOfList(results') = BagOfList(results)]_vars

C12_Witness ==
    /\ spc = "done"
    /\ Len(results) = 2
    /\ results[1].path > results[2].path
    /\ results[1].final_score > results[2].final_score

\* the candidate a result was computed for
CandidateOf(r) ==
    [parsed |-> TRUE, encodeOK |-> TRUE, skills |-> r.skills, raw_text |-> r.raw_text]

\* C13: a resume that cannot be parsed, or whose processing raises, is the
\* only one left out: the loop goes on and screen_candidates returns one
\* result for every other resume, computed from that resume alone.
C13_FailureSkipsOnlyThatCandidate ==
    /\ nextResume > 1 => spc \in {"loop", "done"}
    /\ spc \in {"loop", "done"} =>
          /\ skipped \subseteq 1..(nextResume - 1)
          /\ {results[i].path : i \in 1..Len(results)} = (1..(nextResume - 1)) \ skipped
          /\ Len(results) = (nextResume - 1) - Cardinality(skipped)
          /\ \A i \in 1..Len(results) :
                results[i] = ResultOf(results[i].path, CandidateOf(results[i]),
                                      required_skills, threshold)
    /\ spc = "done" => nextResume = nResumes + 1

C13_Witness ==
    /\ spc = "done"
    /\ nResumes = 2
    /\ skipped = {1}
    /\ Len(results) = 1
    /\ results[1].path = 2

----------------------------------------------------------------------------
(* Screening: C15 *)

\* C15 as stated: similarity_score is 100 times the cosine similarity of the
\* embedding of the candidate's whole raw text with that of the job
\* description, also for a raw text longer than 2000 characters.
C15_SimilarityFromWholeText ==
    \A i \in 1..Len(results) :
        results[i].similarity_score = SimilarityScore(CosSim(results[i].raw_text))

\* C15 as amended: similarity_score is 100 times the cosine similarity of the
\* embedding of the first 2000 characters of the candidate's raw text with
\* that of the job description, rounded to two decimals; candidates whose
\* raw texts agree on their first 2000 characters get the same score.
C15_SimilarityFromFirst2000Chars ==
    /\ \A i \in 1..Len(results) :
          results[i].similarity_score =
              SimilarityScore(CosSim(PyPrefixRuns(results[i].raw_text, 2000)))
    /\ \A i, j \in 1..Len(results) :
          PyPrefixRuns(results[i].raw_text, 2000) = PyPrefixRuns(results[j].raw_text, 2000)
              => results[i].similarity_score = results[j].similarity_score

C15_Witness ==
    /\ spc = "done"
    /\ \E i, j \in 1..Len(results) :
          /\ results[i].raw_text # results[j].raw_text
          /\ PyPrefixRuns(results[i].raw_text, 2000) = PyPrefixRuns(results[j].raw_text, 2000)
          /\ results[i].similarity_score = results[j].similarity_score

----------------------------------------------------------------------------
(* Index: C14, C17, C20 *)

\* C14: after any calls of load_policies and build_vector_store, failing ones
\* included, a built index holds as many vectors as self.chunks has chunks
\* and self.chunk_sources has entries.
C14_IndexChunksSourcesSameLength ==
    index.built =>
        /\ Len(index.xb) = Len(chunks)
        /\ Len(chunks) = Len(chunk_sources)

C14_Witness ==
    /\ lastOp = "build_vector_store"
    /\ lastRaised = "ProviderError"
    /\ index.built
    /\ Len(AllChunks(documents)) > Len(chunks)

\* two outcomes of retrieve_relevant_chunks are the same
SameOutcome(x, y) ==
    /\ x.raised = y.raised
    /\ x.raised = "none" => x.ret = y.ret

\* C17: a build_vector_store that replaces an index built from the same
\* chunks leaves the result of every retrieve_relevant_chunks(query, top_k)
\* as it was: the same chunks in the same order with the same distances.
C17_RebuildKeepsRetrieval ==
    [][(/\ lastOp' = "build_vector_store"
        /\ lastRaised' = "none"
        /\ index.built
        /\ index'.built
        /\ chunks' = chunks) =>
          \A query \in Queries, top_k \in 1..MaxTopK :
              \E before \in {RetrieveFrom(Self, query, top_k, TRUE)} :
              \E after \in {RetrieveFrom([index |-> index', chunks |-> chunks',
                                           chunk_sources |-> chunk_sources'],
                                          query, top_k, TRUE)} :
                  SameOutcome(before, after)]_vars

C17_Witness ==
    /\ lastOp = "retrieve_relevant_chunks"
    /\ lastRaised = "none"
    /\ rebuilt
    /\ Len(chunks) >= 2
    /\ Len(lastRet) >= 2

\* the documents load_policies is to add: one for each file present whose
\* extracted text is not blank, in the order of the listing
ReadableDocuments ==
    LET readable == SelectSeq([i \in 1..Len(PolicyFiles) |-> i],
                              LAMBDA i : /\ folder[i].present
                                         /\ \E k \in 1..Len(folder[i].text) :
                                               ~IsSpace(folder[i].text[k]))
    IN  [k \in 1..Len(readable) |->
            [content |-> folder[readable[k]].text,
             source  |-> PolicyFiles[readable[k]],
             chunks  |-> <<>>]]

\* C20: load_policies adds no document for a file without extractable text
\* and adds one for every other file of the folder; it returns True exactly
\* when it loaded at least one document.
C20_BlankDocumentsSkipped ==
    [][lastOp' = "load_policies" =>
          /\ documents' = documents \o ReadableDocuments
          /\ lastRet' <=> (ReadableDocuments # <<>>)
          /\ lastRet' <=> (Len(documents') > 0)]_vars

C20_Witness ==
    /\ lastOp = "load_policies"
    /\ lastRet = TRUE
    /\ folder[1].present
    /\ folder[1].text = <<>>
    /\ Len(documents) = 1
    /\ documents[1].source = PolicyFiles[2]

----------------------------------------------------------------------------
(* Scoring: C16 *)

\* C16: with skill_match_rate the same, final_score does not fall when
\* similarity_score rises, and with similarity_score the same it does not
\* fall when skill_match_rate rises; the same holds from the unrounded
\* cosine similarity and the number of matched skills.
C16_FinalScoreMonotone ==
    scoreOut # <<>> =>
        \A i, j \in 1..2 :
            /\ (/\ scoreOut[i].skill_match_rate = scoreOut[j].skill_match_rate
                /\ scoreOut[i].similarity_score <= scoreOut[j].similarity_score)
                  => scoreOut[i].final_score <= scoreOut[j].final_score
            /\ (/\ scoreOut[i].similarity_score = scoreOut[j].similarity_score
                /\ scoreOut[i].skill_match_rate <= scoreOut[j].skill_match_rate)
                  => scoreOut[i].final_score <= scoreOut[j].final_score
            /\ (/\ scoreIn.matched[i] = scoreIn.matched[j]
                /\ scoreIn.similarity[i] <= scoreIn.similarity[j])
                  => scoreOut[i].final_score <= scoreOut[j].final_score
            /\ (/\ scoreIn.similarity[i] = scoreIn.similarity[j]
                /\ scoreIn.matched[i] <= scoreIn.matched[j])
                  => scoreOut[i].final_score <= scoreOut[j].final_score

C16_Witness ==
    /\ scoreOut # <<>>
    /\ scoreIn.similarity[1] < scoreIn.similarity[2]
    /\ scoreOut[1].similarity_score = scoreOut[2].similarity_score
    /\ scoreOut[1].skill_match_rate < scoreOut[2].skill_match_rate
    /\ scoreOut[1].final_score < scoreOut[2].final_score
    /\ 10 * scoreOut[1].final_score #
          6 * scoreOut[1].similarity_score + 4 * scoreOut[1].skill_match_rate

----------------------------------------------------------------------------
(* Failures of the language model: C18, C19 *)

\* C18 as stated: when the language model's answer to the skill prompt is no
\* valid structured data, the required skills are the keyword-derived list
\* of the job description.
C18_InvalidOutputFallsBackToKeywords ==
    (spc \in {"loop", "done"} /\ jdOutput.kind = "not json") =>
        required_skills = JobDescriptionKeywords

\* C18 as amended: when the language model's answer to the skill prompt is
\* no valid structured data, or the call fails, the required skills are the
\* empty list; screening warns, goes on and scores every candidate with
\* skill_match_rate 0.
C18_InvalidOutputGivesNoSkills ==
    (spc # "ready" /\ jdOutput.kind \in {"not json", "error"}) =>
        /\ required_skills = {}
        /\ warned
        /\ \A i \in 1..Len(results) :
              /\ results[i].skill_match_rate = 0
              /\ results[i].matched_skills = {}

C18_Witness ==
    /\ spc = "done"
    /\ jdOutput.kind = "not json"
    /\ required_skills = {}
    /\ Len(results) = nResumes
    /\ \E i \in 1..Len(results) :
          /\ results[i].skills = <<"Python", "AWS">>
          /\ results[i].skill_match_rate = 0

\* C19: when the language model call fails during generate_response, the
\* caller gets a failure it can tell from an answer: it is displayed as an
\* error and no entry of chat_history holds it as an answer.
C19_LLMFailureIsReportedFailure ==
    (lastOp = "generate_response" /\ llmRaised) =>
        /\ lastRaised # "none"
        /\ shown = "error"
        /\ \A i \in 1..Len(chat_history) :
              chat_history[i].a # "Sorry, something went wrong"

----------------------------------------------------------------------------
(* Retrieval and citation: C21, C22, C25 *)

C22_SearchIsReadOnly ==
    [][lastOp' \in {"retrieve_relevant_chunks", "generate_response"} =>
          /\ UNCHANGED <<documents, chunks, chunk_sources, index>>
          /\ lastOp' = "retrieve_relevant_chunks" =>
                \E r \in {RetrieveFrom(Self, lastArgs'.query, lastArgs'.top_k, TRUE)} :
                    lastRaised' = "none" => lastRet' = r.ret]_vars

C22_Witness ==
    /\ lastOp = "retrieve_relevant_chunks"
    /\ lastRaised = "none"
    /\ index.built
    /\ Len(chunks) >= 2
    /\ Len(lastRet) >= 2
    /\ lastRet[1].content # lastRet[2].content

----------------------------------------------------------------------------
(* Embedding calls: C23 *)

----------------------------------------------------------------------------
(* Chunking: C24 *)

\* C24: for every non-empty text, whitespace-only ones included, and every
\* 0 <= overlap < chunk_size, chunk_text returns at least one chunk and no
\* chunk that is empty after trimming.
C24_ChunksNeverEmpty ==
    (cpc # "ready" /\ cText # <<>>) =>
        /\ Len(cResult) >= 1
        /\ \A i \in 1..Len(cResult) : Strip(cResult[i]) # <<>>

----------------------------------------------------------------------------
(* Retrieval positions: C25 *)

\* C25: the results of a search of a built index refer to distinct positions
\* of the index, each with the content, source and true distance of its
\* position, for every top_k, top_k above the number of chunks included.
C25_ResultsAreDistinctPositions ==
    (lastOp = "retrieve_relevant_chunks" /\ index.built /\ lastRaised = "none") =>
        \E pos \in [1..Len(lastRet) -> 1..Len(chunks)] :
            /\ \A i, j \in 1..Len(lastRet) : i # j => pos[i] # pos[j]
            /\ \A i \in 1..Len(lastRet) :
                  /\ lastRet[i].content = chunks[pos[i]]
                  /\ lastRet[i].source = chunk_sources[pos[i]].source
                  /\ lastRet[i].distance = L2Sq(index.xb[pos[i]], Embed(lastArgs.query))

----------------------------------------------------------------------------
(* Screening order: C26 *)

\* C26: in the list screen_candidates returns, two candidates with the same
\* final_score stand in the order of their resume paths in the input.
C26_TiesKeepInputOrder ==
    spc = "done" =>
        \A i, j \in 1..Len(results) :
            (i < j /\ results[i].final_score = results[j].final_score)
                => results[i].path < results[j].path

C26_Witness ==
    /\ spc = "done"
    /\ Len(results) = 2
    /\ results[1].final_score = results[2].final_score
    /\ results[1].skills # results[2].skills
    /\ results[1].path = 1

----------------------------------------------------------------------------
(* Loading twice: C27 *)

\* C27: after any number of load_policies calls over the unchanged folder
\* and a build_vector_store, every source file is in documents once and
\* every chunk of it is in the index once.
C27_LoadingIsIdempotent ==
    (lastOp = "build_vector_store" /\ lastRaised = "none" /\ index.built) =>
        /\ \A i, j \in 1..Len(documents) :
              i # j => documents[i].source # documents[j].source
        /\ \A i, j \in 1..Len(chunk_sources) :
              i # j => chunk_sources[i] # chunk_sources[j]

----------------------------------------------------------------------------
(* Session state: C28 *)

\* C28: policies_loaded implies that the session holds a chatbot whose index
\* is built and not empty, so that a question never meets the unbuilt index;
\* a "Process Documents" run that fails, and any handler that ends in an
\* error or a warning, leaves policies_loaded and policy_chatbot as they were.
C28_LoadedImpliesBuiltIndex ==
    /\ [](/\ policies_loaded =>
                /\ policy_chatbot = "PolicyChatbot"
                /\ index.built
                /\ Len(index.xb) > 0
          /\ (lastOp = "generate_response" /\ lastRaised = "none") =>
                lastRet.answer # FallbackAnswer)
    /\ [][shown' \in {"error", "warning"} =>
             UNCHANGED <<policies_loaded, policy_chatbot>>]_vars

C28_Witness ==
    /\ policies_loaded
    /\ lastOp = "Process Documents"
    /\ shown = "error"
    /\ \E i \in 1..Len(PolicyFiles) : folder[i].present /\ folder[i].text = <<>>
    /\ \A i \in 1..Len(PolicyFiles) : ~folder[i].present \/ folder[i].text = <<>>
    /\ index.built

----------------------------------------------------------------------------
(* Score ranges: C29 *)

\* C29: similarity_score lies in [-100, 100] and is negative for a negative
\* cosine similarity; it enters the weighted sum as it is, so that
\* final_score lies in [-60, 100] and can be negative.
C29_SimilarityNotClamped ==
    \A k \in 1..Len(scoreOut) :
        /\ scoreOut[k].similarity_score \in -10000..10000
        /\ scoreIn.similarity[k] <= -5 => scoreOut[k].similarity_score <= 0
        /\ scoreIn.similarity[k] <= -10 => scoreOut[k].similarity_score < 0
        /\ 10 * scoreOut[k].similarity_score - scoreIn.similarity[k] \in -5..5
        /\ scoreOut[k].final_score \in -6000..10000
        /\ 10 * scoreOut[k].final_score
              - (6 * scoreOut[k].similarity_score + 4 * scoreOut[k].skill_match_rate)
                \in -5..5

C29_Witness ==
    /\ scoreOut # <<>>
    /\ scoreOut[1].similarity_score = -10000
    /\ scoreOut[1].final_score = -6000
    /\ scoreOut[2].similarity_score = -1235
    /\ scoreOut[2].skill_match_rate = 0
    /\ scoreOut[2].final_score = -741

----------------------------------------------------------------------------
(* build_vector_store: C30 *)

\* the chunks of the documents, in document order
RECURSIVE ChunksInOrder(_)
ChunksInOrder(docs) ==
    IF docs = <<>> THEN <<>> ELSE Head(docs).chunks \o ChunksInOrder(Tail(docs))

\* C30: build_vector_store returns False only when there is no chunk to
\* index; then, and when the embedding raises, index, chunks and
\* chunk_sources stay as they were.  When it returns True the three have
\* been replaced together: chunks by the chunks of the documents, the index
\* by their vectors, chunk_sources by one entry for each of them.
C30_BuildReplacesAllOrNothing ==
    [][lastOp' = "build_vector_store" =>
          IF lastRaised' # "none"
          THEN UNCHANGED <<index, chunks, chunk_sources>>
          ELSE IF lastRet'
          THEN /\ chunks' = ChunksInOrder(documents')
               /\ chunks' # <<>>
               /\ index'.built
               /\ index'.xb = [i \in 1..Len(chunks') |-> Embed(chunks'[i])]
               /\ Len(chunk_sources') = Len(chunks')
          ELSE /\ ChunksInOrder(documents') = <<>>
               /\ UNCHANGED <<index, chunks, chunk_sources>>]_vars

C30_Witness ==
    /\ lastOp = "build_vector_store"
    /\ lastRaised = "ProviderError"
    /\ index.built
    /\ Len(chunks) = 1
    /\ Len(documents) = 3
====
